---- MODULE Spec2Model ----
(***************************************************************************)
(* Model of the screening and scoring engine of stock.py:                  *)
(* screen_stocks_for_opportunities (benchmark run-up, the per-ticker       *)
(* quality gates, feature extraction, scoring, ranking) and the part of    *)
(* main that consumes the ranking.                                         *)
(*                                                                         *)
(* Numbers.  Prices are small non-negative integers.  Every derived value  *)
(* is a float, modelled as an exact fraction [n, d] in lowest terms with   *)
(* d > 0, or one of the three IEEE specials that numpy.float64 arithmetic  *)
(* yields instead of raising: +inf = 1/0, -inf = -1/0, nan = 0/0.  Binary  *)
(* rounding error of finite arithmetic is not modelled.                    *)
(***************************************************************************)
EXTENDS Integers, Sequences, FiniteSets, TLC

(* ------------------------------ bounds --------------------------------- *)
\* longest candidate sequence handed to the engine
MaxTickers == 3
\* most historical earnings dates a ticker resolves to (the code keeps 8)
MaxDates == 2

(* --------------------------- float arithmetic -------------------------- *)
IAbs(x) == IF x < 0 THEN -x ELSE x

RECURSIVE Gcd(_, _)
Gcd(a, b) == IF b = 0 THEN a ELSE Gcd(b, a % b)

\* the finite float n/d (d # 0), in lowest terms with a positive denominator
Fin(n, d) ==
    LET s == IF d < 0 THEN -1 ELSE 1
        g == Gcd(IAbs(n), IAbs(d))
    IN  [n |-> (s * n) \div g, d |-> (s * d) \div g]

PInf == [n |-> 1, d |-> 0]
NInf == [n |-> -1, d |-> 0]
NaN == [n |-> 0, d |-> 0]
Zero == [n |-> 0, d |-> 1]

IsNaN(x) == x.d = 0 /\ x.n = 0
IsInf(x) == x.d = 0 /\ x.n # 0
IsFinite(x) == x.d # 0
Sign(x) == IF x.n > 0 THEN 1 ELSE IF x.n < 0 THEN -1 ELSE 0
OfSign(s) == IF s > 0 THEN PInf ELSE IF s < 0 THEN NInf ELSE NaN

FNeg(x) == [n |-> -x.n, d |-> x.d]
FAbs(x) == [n |-> IAbs(x.n), d |-> x.d]

FAdd(a, b) ==
    IF IsNaN(a) \/ IsNaN(b) THEN NaN
    ELSE IF IsInf(a) /\ IsInf(b) THEN (IF a.n = b.n THEN a ELSE NaN)
    ELSE IF IsInf(a) THEN a
    ELSE IF IsInf(b) THEN b
    ELSE Fin(a.n * b.d + b.n * a.d, a.d * b.d)

FSub(a, b) == FAdd(a, FNeg(b))

FMul(a, b) ==
    IF IsNaN(a) \/ IsNaN(b) THEN NaN
    ELSE IF IsInf(a) \/ IsInf(b) THEN OfSign(Sign(a) * Sign(b))
    ELSE Fin(a.n * b.n, a.d * b.d)

\* numpy.float64 division: x/0 is +-inf, 0/0 is nan, no exception
FDiv(a, b) ==
    IF IsNaN(a) \/ IsNaN(b) THEN NaN
    ELSE IF IsInf(a) THEN (IF IsInf(b) THEN NaN
                           ELSE OfSign(Sign(a) * (IF b.n < 0 THEN -1 ELSE 1)))
    ELSE IF IsInf(b) THEN Zero
    ELSE IF b.n = 0 THEN OfSign(Sign(a))
    ELSE Fin(a.n * b.d, a.d * b.n)

\* a < b; every comparison with nan is false
FLt(a, b) ==
    IF IsNaN(a) \/ IsNaN(b) THEN FALSE
    ELSE IF IsInf(a) THEN a.n < 0 /\ b # a
    ELSE IF IsInf(b) THEN b.n > 0
    ELSE a.n * b.d < b.n * a.d

FGt(a, b) == FLt(b, a)

Int2F(k) == [n |-> k, d |-> 1]

\* round(x, 2): nearest hundredth, ties to even; inf and nan pass through
Round2(x) ==
    IF ~IsFinite(x) THEN x
    ELSE LET q == x.n * 100
             f == q \div x.d
             r == q - f * x.d
             h == IF 2 * r > x.d THEN f + 1
                  ELSE IF 2 * r < x.d THEN f
                  ELSE IF f % 2 = 0 THEN f ELSE f + 1
         IN  Fin(h, 100)

\* ((end - start) / start) * 100 on two closes
PctChange(start, end) ==
    FMul(FDiv(FSub(Int2F(end), Int2F(start)), Int2F(start)), Int2F(100))

RECURSIVE FSum(_)
FSum(s) == IF s = <<>> THEN Zero ELSE FAdd(FSum(SubSeq(s, 1, Len(s) - 1)), s[Len(s)])

(* ------------------------------ sequences ------------------------------ *)
Reverse(s) == [k \in 1..Len(s) |-> s[Len(s) + 1 - k]]

Last(s) == s[Len(s)]

\* all sequences over S of length 0..n
SeqsUpTo(S, n) == UNION {[1..k -> S] : k \in 0..n}

(* --------------------- re.match(r'^[A-Z]{1,5}$', s) -------------------- *)
\* a symbol is a sequence of one-character strings
Upper == {"A", "B", "C", "D", "E", "F", "G", "H", "I", "J", "K", "L", "M",
          "N", "O", "P", "Q", "R", "S", "T", "U", "V", "W", "X", "Y", "Z"}

\* [A-Z]{1,5} consumes k letters; '$' then matches at the end of the string
\* or just before a newline that is the last character
SymbolMatches(s) ==
    \E k \in 1..5 :
        /\ Len(s) >= k
        /\ \A j \in 1..k : s[j] \in Upper
        /\ \/ Len(s) = k
           \/ Len(s) = k + 1 /\ s[k + 1] = "\n"

(* ------- sorted(screened_stocks, key=move_score, reverse=True) --------- *)
\* the key comparison of list.sort
KeyLt(x, y) == FLt(x.move_score, y.move_score)

\* count_run: length of the run that starts the list; k >= 2 is the run so far
RECURSIVE RunLen(_, _, _)
RunLen(a, k, desc) ==
    IF k = Len(a) THEN k
    ELSE IF desc THEN (IF KeyLt(a[k + 1], a[k]) THEN RunLen(a, k + 1, desc) ELSE k)
    ELSE (IF KeyLt(a[k + 1], a[k]) THEN k ELSE RunLen(a, k + 1, desc))

\* binarysort's search for the slot of pivot in the sorted prefix a[l..r-1]
RECURSIVE BinSlot(_, _, _, _)
BinSlot(a, pivot, l, r) ==
    LET p == l + ((r - l) \div 2)
        l2 == IF KeyLt(pivot, a[p]) THEN l ELSE p + 1
        r2 == IF KeyLt(pivot, a[p]) THEN p ELSE r
    IN  IF l2 < r2 THEN BinSlot(a, pivot, l2, r2) ELSE l2

\* binarysort: insert a[j], a[j+1], ... into the sorted prefix before them
RECURSIVE BinarySort(_, _)
BinarySort(a, j) ==
    IF j > Len(a) THEN a
    ELSE LET l == BinSlot(a, a[j], 1, j)
         IN  BinarySort(SubSeq(a, 1, l - 1) \o <<a[j]>> \o SubSeq(a, l, j - 1)
                            \o SubSeq(a, j + 1, Len(a)), j + 1)

\* list.sort on a list shorter than 64: one natural run, then binarysort
SortAscending(a) ==
    IF Len(a) < 2 THEN a
    ELSE LET desc == KeyLt(a[2], a[1])
             run == RunLen(a, 2, desc)
             b == IF desc THEN Reverse(SubSeq(a, 1, run)) \o SubSeq(a, run + 1, Len(a))
                  ELSE a
         IN  BinarySort(b, run + 1)

\* reverse=True: reverse, sort ascending, reverse (keeps equal keys in order)
SortedByScoreDesc(s) == Reverse(SortAscending(Reverse(s)))

(* --------------------- data of the external providers ------------------ *)
\* the program constant 10_000_000_000 of the market-cap gate, in millions
MinMarketCap == 10000

\* one point of a price series: a trading day (relative to the date the
\* window is anchored at) and its close
P(day, close) == [day |-> day, close |-> close]

\* spy.history(period="30d"): no data, a month that doubles, a month that
\* starts at a zero close
BenchmarkSeries ==
    {<<>>, <<P(-29, 1), P(0, 2)>>, <<P(-29, 0), P(0, 1)>>}

\* stock.history over [d-1day, d+2day): the end is exclusive, so the window
\* holds at most the day before d, d and the day after d
PostWindows ==
    {<<>>,
     <<P(0, 1)>>,
     <<P(-1, 1), P(1, 2)>>,
     <<P(-1, 1), P(0, 2), P(1, 1)>>,
     <<P(-1, 0), P(0, 1)>>}

\* stock.history over [d-30day, d)
PreWindows == {<<>>, <<P(-30, 1), P(-1, 1)>>}

\* stock.history(period="30d")
Hist30Series ==
    {<<>>, <<P(-29, 3), P(0, 4)>>, <<P(-29, 0), P(0, 1)>>}

\* a dict entry: <<>> when the key is absent (info.get gives None), else <<v>>
Absent == <<>>
\* Python truthiness of a numeric / string entry: None, 0 and "" are false
TruthyNum(e) == e # Absent /\ e[1] # 0
TruthyStr(e) == e # Absent /\ e[1] # ""

\* the fundamentals snapshots stock.info can return
Infos ==
    [shortName : {Absent, <<"Acme">>},
     marketCap : {Absent, <<MinMarketCap - 1>>, <<MinMarketCap>>},
     targetMeanPrice : {Absent, <<2>>},
     currentPrice : {Absent, <<0>>, <<1>>}]

NoInfo == [shortName |-> Absent, marketCap |-> Absent,
           targetMeanPrice |-> Absent, currentPrice |-> Absent]

\* what a provider call can do: raise, or return one of the values of S
Outcomes(S, none) ==
    {[raised |-> TRUE, value |-> none]} \cup {[raised |-> FALSE, value |-> v] : v \in S}

\* candidate symbols: a plain one, one in lower case and one with a trailing
\* newline
Symbols == {<<"A", "B">>, <<"a", "b">>, <<"A", "B", "\n">>}

\* the candidate sequences; the k-th candidate reports on day k
CandidateLists ==
    {[k \in 1..Len(syms) |-> [symbol |-> syms[k], reportDate |-> k]] :
        syms \in SeqsUpTo(Symbols, MaxTickers)}

(* --------------------------------- state ------------------------------- *)
VARIABLES
    pc,               \* position in main / screen_stocks_for_opportunities
    caller,           \* "main", or "direct" for a call of the engine alone
    tickers,          \* the candidate sequence
    idx,              \* position of the for loop in tickers (0 before it)
    spy_hist,         \* <<>> until spy.history has returned, then <<series>>
    spy_runup,        \* <<>> until line 168 has assigned it, then <<value>>
    info,             \* stock.info of the current candidate
    earnings_dates,   \* how many dates get_historical_earnings_from_api gave
    d,                \* position of the inner for loop in earnings_dates
    hist_post,        \* the [d-1day, d+2day) window of the current date
    post_moves,
    pre_runups,
    screened_stocks,  \* the accumulator
    ranked_stocks,    \* the value returned by the engine
    log,              \* the records handed to logger
    calls,            \* the provider calls made for the current candidate
    gate,             \* the gate whose `continue` ended the current candidate
    error,            \* the exception that left the engine or main, or "none"
    exit_code,        \* -1 while running, else the exit status of main
    file_written,
    pushed,
    tweeted

vars == <<pc, caller, tickers, idx, spy_hist, spy_runup, info, earnings_dates, d,
          hist_post, post_moves, pre_runups, screened_stocks, ranked_stocks, log, calls,
          gate, error, exit_code, file_written, pushed, tweeted>>

locals == <<info, earnings_dates, d, hist_post, post_moves, pre_runups>>
mainVars == <<exit_code, file_written, pushed, tweeted>>

LogEntry(level, what, about) == [level |-> level, what |-> what, about |-> about]

\* main is the only caller in the source; a call of the engine alone is
\* modelled for the one input main never passes on, the empty sequence
Init ==
    /\ pc = "start"
    /\ tickers \in CandidateLists
    /\ caller \in IF tickers = <<>> THEN {"main", "direct"} ELSE {"main"}
    /\ idx = 0
    /\ spy_hist = <<>>
    /\ spy_runup = <<>>
    /\ info = NoInfo
    /\ earnings_dates = 0
    /\ d = 0
    /\ hist_post = <<>>
    /\ post_moves = <<>>
    /\ pre_runups = <<>>
    /\ screened_stocks = <<>>
    /\ ranked_stocks = <<>>
    /\ log = <<>>
    /\ calls = <<>>
    /\ gate = 0
    /\ error = "none"
    /\ exit_code = -1
    /\ file_written = FALSE
    /\ pushed = FALSE
    /\ tweeted = FALSE

(* ------------------------ feature extraction --------------------------- *)
\* line 193: the move recorded for a window of at least two points
PostMove(window) == PctChange(window[1].close, window[2].close)

\* lines 168/197/212: percent change from the first to the last close
Runup(hist) == PctChange(hist[1].close, Last(hist).close)

\* line 201
AvgAbsMove(moves) ==
    FDiv(FSum([k \in 1..Len(moves) |-> FAbs(moves[k])]), Int2F(Len(moves)))

\* lines 202-203
WinRate(moves) ==
    FMul(FDiv(Int2F(Cardinality({k \in 1..Len(moves) : FGt(moves[k], Zero)})),
              Int2F(Len(moves))), Int2F(100))

\* line 204
AvgPreRunup(runups) ==
    IF runups = <<>> THEN Zero ELSE FDiv(FSum(runups), Int2F(Len(runups)))

\* line 208
AnalystUpside(target_price, current_price) == PctChange(current_price, target_price)

\* line 213
RelativeRunup(current_runup, benchmark) == FAbs(FSub(current_runup, benchmark))

\* line 215
MoveScore(avg_abs_move, analyst_upside, relative_runup) ==
    FAdd(FAdd(FMul(avg_abs_move, Fin(5, 10)), FMul(analyst_upside, Fin(3, 10))),
         FMul(relative_runup, Fin(2, 10)))

\* lines 217-223: the record appended for an accepted candidate
ScreeningResult(ticker_data, inf, moves, runups, stock_hist, benchmark) ==
    LET avg_abs_move == AvgAbsMove(moves)
        analyst_upside == AnalystUpside(inf.targetMeanPrice[1], inf.currentPrice[1])
        current_runup == Runup(stock_hist)
        relative_runup == RelativeRunup(current_runup, benchmark)
    IN  [ticker |-> ticker_data.symbol,
         company_name |-> inf.shortName[1],
         earnings_date |-> ticker_data.reportDate,
         move_score |-> Round2(MoveScore(avg_abs_move, analyst_upside, relative_runup)),
         avg_move |-> Round2(avg_abs_move),
         analyst_upside |-> Round2(analyst_upside),
         stock_runup |-> Round2(current_runup),
         win_rate |-> Round2(WinRate(moves)),
         avg_pre_earnings_runup |-> Round2(AvgPreRunup(runups))]

(* ------------------- screen_stocks_for_opportunities ------------------- *)
\* the names of the earnings loop are dead once the candidate is finished,
\* and hist_post once its date is (each is assigned again before its next use)
ResetLists ==
    /\ earnings_dates' = 0
    /\ d' = 0
    /\ hist_post' = <<>>
    /\ post_moves' = <<>>
    /\ pre_runups' = <<>>

lists == <<earnings_dates, d, hist_post, post_moves, pre_runups>>

\* `continue` at a quality gate: nothing is logged, the loop goes on
Reject(g) ==
    /\ gate' = g
    /\ pc' = "loop"
    /\ log' = log
    /\ ResetLists

\* Except with `break` in place of `continue`: one failure ends the batch
ExceptBreak ==
    /\ log' = Append(log, LogEntry("warning", "could not analyze", idx))
    /\ pc' = "sort"
    /\ gate' = 0
    /\ ResetLists

\* lines 226-228: the except clause of the loop body
Except ==
    /\ log' = Append(log, LogEntry("warning", "could not analyze", idx))
    /\ pc' = "loop"
    /\ gate' = 0
    /\ ResetLists

\* an exception that no handler of the engine catches; in main it ends the
\* process with a traceback and status 1
Escape(e) ==
    /\ error' = e
    /\ pc' = IF caller = "main" THEN "exit" ELSE "raised"
    /\ exit_code' = IF caller = "main" THEN 1 ELSE exit_code

\* lines 291-296 of main, or the direct call: entry into the engine (line 164)
Start ==
    /\ pc = "start"
    /\ IF caller = "main" /\ tickers = <<>>
       THEN /\ pc' = "exit"
            /\ exit_code' = 1
            /\ log' = Append(log, LogEntry("error", "no upcoming earnings", 0))
       ELSE /\ pc' = "bench"
            /\ exit_code' = exit_code
            /\ log' = Append(log, LogEntry("info", "screening", 0))
    /\ UNCHANGED <<caller, tickers, idx, spy_hist, spy_runup, locals, screened_stocks,
                   ranked_stocks, calls, gate, error, file_written, pushed, tweeted>>

\* BenchmarkWith that falls back to a run-up of 0 when the benchmark has no data
BenchmarkLenient(out) ==
    /\ spy_hist' = IF out.raised THEN spy_hist ELSE <<out.value>>
    /\ spy_runup' = IF out.raised \/ out.value = <<>> THEN <<Zero>>
                    ELSE <<Runup(out.value)>>
    /\ pc' = "loop"
    /\ UNCHANGED <<error, exit_code>>

\* lines 166-168 with the outcome of spy.history; .iloc[-1] of an empty series
\* raises IndexError, and nothing around these lines catches
BenchmarkWith(out) ==
    IF out.raised
    THEN Escape("FetchError") /\ UNCHANGED <<spy_hist, spy_runup>>
    ELSE /\ spy_hist' = <<out.value>>
         /\ IF out.value = <<>>
            THEN Escape("IndexError") /\ spy_runup' = spy_runup
            ELSE /\ spy_runup' = <<Runup(out.value)>>
                 /\ pc' = "loop"
                 /\ UNCHANGED <<error, exit_code>>

Benchmark ==
    /\ pc = "bench"
    /\ \E out \in Outcomes(BenchmarkSeries, <<>>) : BenchmarkWith(out)
    /\ UNCHANGED <<caller, tickers, idx, locals, screened_stocks, ranked_stocks,
                   log, calls, gate, file_written, pushed, tweeted>>

\* LoopHead without the symbol test of line 173
LoopHeadNoGate1 ==
    /\ pc = "loop"
    /\ info' = NoInfo
    /\ calls' = <<>>
    /\ gate' = 0
    /\ log' = log
    /\ ResetLists
    /\ IF idx < Len(tickers)
       THEN idx' = idx + 1 /\ pc' = "info"
       ELSE idx' = idx /\ pc' = "sort"
    /\ UNCHANGED <<caller, tickers, spy_hist, spy_runup, screened_stocks,
                   ranked_stocks, error, mainVars>>

\* lines 170-173: the for statement ends the loop, or takes the next
\* candidate and tests its symbol (gate 1) before anything is fetched for it
LoopHead ==
    /\ pc = "loop"
    /\ info' = NoInfo
    /\ calls' = <<>>
    /\ IF idx < Len(tickers)
       THEN /\ idx' = idx + 1
            /\ IF ~SymbolMatches(tickers[idx + 1].symbol)
               THEN Reject(1)
               ELSE pc' = "info" /\ gate' = 0 /\ log' = log /\ ResetLists
       ELSE /\ idx' = idx
            /\ pc' = "sort"
            /\ gate' = 0
            /\ log' = log
            /\ ResetLists
    /\ UNCHANGED <<caller, tickers, spy_hist, spy_runup, screened_stocks,
                   ranked_stocks, error, mainVars>>

\* lines 178-183 on the snapshot: the first of gates 2-4 that fails, else 0
InfoGate(inf) ==
    IF ~TruthyStr(inf.shortName) THEN 2
    ELSE IF ~TruthyNum(inf.marketCap) \/ inf.marketCap[1] < MinMarketCap THEN 3
    ELSE IF ~TruthyNum(inf.targetMeanPrice) THEN 4
    ELSE 0

\* lines 175-183 with the outcome of stock.info
FetchInfoWith(out) ==
    IF out.raised THEN Except /\ info' = info
    ELSE /\ info' = out.value
         /\ IF InfoGate(out.value) # 0
            THEN Reject(InfoGate(out.value))
            ELSE pc' = "earnings" /\ UNCHANGED <<gate, log, lists>>

FetchInfo ==
    /\ pc = "info"
    /\ calls' = Append(calls, "info")
    /\ \E out \in Outcomes(Infos, NoInfo) : FetchInfoWith(out)
    /\ UNCHANGED <<caller, tickers, idx, spy_hist, spy_runup, screened_stocks,
                   ranked_stocks, error, mainVars>>

\* lines 185-186; get_historical_earnings_from_api turns its own failures
\* into an empty list (lines 138-139), so the call never raises
FetchEarnings ==
    /\ pc = "earnings"
    /\ calls' = Append(calls, "earnings")
    /\ \E n \in 0..MaxDates :
        IF n = 0
        THEN Reject(5)
        ELSE /\ earnings_dates' = n
             /\ d' = 1
             /\ pc' = "post"
             /\ UNCHANGED <<gate, log, hist_post, post_moves, pre_runups>>
    /\ UNCHANGED <<caller, tickers, idx, spy_hist, spy_runup, info,
                   screened_stocks, ranked_stocks, error, mainVars>>

\* lines 191-193 with the outcome of the [d-1day, d+2day) history call
FetchPostWith(out) ==
    IF out.raised THEN Except
    ELSE /\ hist_post' = out.value
         /\ post_moves' = IF Len(out.value) >= 2
                          THEN Append(post_moves, PostMove(out.value))
                          ELSE post_moves
         /\ UNCHANGED <<earnings_dates, d, pre_runups>>
         /\ pc' = "pre"
         /\ UNCHANGED <<gate, log>>

FetchPost ==
    /\ pc = "post"
    /\ calls' = Append(calls, "post")
    /\ \E out \in Outcomes(PostWindows, <<>>) : FetchPostWith(out)
    /\ UNCHANGED <<caller, tickers, idx, spy_hist, spy_runup, info, screened_stocks,
                   ranked_stocks, error, mainVars>>

\* lines 195-208 with the outcome of the [d-30day, d) history call: the
\* run-up, the step of the inner for statement (line 190) and, once the dates
\* are exhausted, gate 6 (line 199) and gate 7 (line 207)
FetchPreWith(out) ==
    IF out.raised THEN Except
    ELSE IF d < earnings_dates
    THEN /\ pre_runups' = IF out.value # <<>>
                          THEN Append(pre_runups, Runup(out.value))
                          ELSE pre_runups
         /\ d' = d + 1
         /\ hist_post' = <<>>
         /\ pc' = "post"
         /\ UNCHANGED <<earnings_dates, post_moves, gate, log>>
    ELSE IF post_moves = <<>> THEN Reject(6)
    ELSE IF ~TruthyNum(info.currentPrice) THEN Reject(7)
    ELSE /\ pre_runups' = IF out.value # <<>>
                          THEN Append(pre_runups, Runup(out.value))
                          ELSE pre_runups
         /\ hist_post' = <<>>
         /\ pc' = "hist30"
         /\ UNCHANGED <<earnings_dates, d, post_moves, gate, log>>

FetchPre ==
    /\ pc = "pre"
    /\ calls' = Append(calls, "pre")
    /\ \E out \in Outcomes(PreWindows, <<>>) : FetchPreWith(out)
    /\ UNCHANGED <<caller, tickers, idx, spy_hist, spy_runup, info, screened_stocks,
                   ranked_stocks, error, mainVars>>

\* lines 210-224 with the outcome of stock.history(period="30d")
FetchHist30With(out) ==
    IF out.raised THEN Except /\ screened_stocks' = screened_stocks
    ELSE IF out.value = <<>>
    THEN Reject(8) /\ screened_stocks' = screened_stocks
    ELSE /\ screened_stocks' =
                Append(screened_stocks,
                       ScreeningResult(tickers[idx], info, post_moves, pre_runups,
                                       out.value, spy_runup[1]))
         /\ log' = Append(log, LogEntry("info", "qualified", idx))
         /\ pc' = "loop"
         /\ gate' = 0
         /\ ResetLists

\* FetchHist30 that fetches the benchmark again for every candidate
FetchHist30Refetch ==
    /\ pc = "hist30"
    /\ calls' = Append(calls, "hist30")
    /\ \E b \in BenchmarkSeries \ {<<>>} : spy_runup' = <<Runup(b)>>
    /\ \E out \in Outcomes(Hist30Series, <<>>) : FetchHist30With(out)
    /\ UNCHANGED <<caller, tickers, idx, spy_hist, info, ranked_stocks,
                   error, mainVars>>

FetchHist30 ==
    /\ pc = "hist30"
    /\ calls' = Append(calls, "hist30")
    /\ \E out \in Outcomes(Hist30Series, <<>>) : FetchHist30With(out)
    /\ UNCHANGED <<caller, tickers, idx, spy_hist, spy_runup, info, ranked_stocks,
                   error, mainVars>>

\* line 230
Return ==
    /\ pc = "sort"
    /\ ranked_stocks' = SortedByScoreDesc(screened_stocks)
    /\ pc' = IF caller = "main" THEN "main_check" ELSE "returned"
    /\ UNCHANGED <<caller, tickers, idx, spy_hist, spy_runup, locals,
                   screened_stocks, log, calls, gate, error, mainVars>>

(* ---------------------------------- main ------------------------------- *)
engineVars == <<caller, tickers, idx, spy_hist, spy_runup, locals, screened_stocks,
                ranked_stocks, calls, gate>>

\* MainCheck without the exit on an empty ranking
MainCheckProceed ==
    /\ pc = "main_check"
    /\ log' = Append(log, LogEntry("info", "ranked list", 0))
    /\ exit_code' = exit_code
    /\ pc' = "enrich"
    /\ UNCHANGED <<engineVars, error, file_written, pushed, tweeted>>

\* lines 297-303
MainCheck ==
    /\ pc = "main_check"
    /\ IF ranked_stocks = <<>>
       THEN /\ log' = Append(log, LogEntry("error", "no opportunities", 0))
            /\ exit_code' = 1
            /\ pc' = "exit"
       ELSE /\ log' = Append(log, LogEntry("info", "ranked list", 0))
            /\ exit_code' = exit_code
            /\ pc' = "enrich"
    /\ UNCHANGED <<engineVars, error, file_written, pushed, tweeted>>

\* lines 305-309: get_favorable_entry_price fetches and formats outside its
\* try block, so it can raise, and main has no handler
Enrich ==
    /\ pc = "enrich"
    /\ \E ok \in BOOLEAN :
        IF ok THEN pc' = "write" /\ UNCHANGED <<error, exit_code>>
        ELSE pc' = "exit" /\ error' = "EnrichError" /\ exit_code' = 1
    /\ UNCHANGED <<engineVars, log, file_written, pushed, tweeted>>

\* lines 311-319
WriteFile ==
    /\ pc = "write"
    /\ file_written' = TRUE
    /\ log' = Append(log, LogEntry("info", "saved", 0))
    /\ pc' = "push"
    /\ UNCHANGED <<engineVars, error, exit_code, pushed, tweeted>>

\* lines 321-324; the body of push_to_github is elided in the source, its
\* result is left open
Push ==
    /\ pc = "push"
    /\ pushed' = TRUE
    /\ \E ok \in BOOLEAN :
        IF ok THEN pc' = "tweet" /\ UNCHANGED <<exit_code, log>>
        ELSE /\ pc' = "exit"
             /\ exit_code' = 1
             /\ log' = Append(log, LogEntry("error", "push failed", 0))
    /\ UNCHANGED <<engineVars, error, file_written, tweeted>>

\* lines 326-338: narrative generation for the top contender
Tweet ==
    /\ pc = "tweet"
    /\ tweeted' = TRUE
    /\ exit_code' = 0
    /\ pc' = "exit"
    /\ log' = Append(log, LogEntry("info", "complete", 0))
    /\ UNCHANGED <<engineVars, error, file_written, pushed>>

Next ==
    \/ Start
    \/ Benchmark
    \/ LoopHead
    \/ FetchInfo
    \/ FetchEarnings
    \/ FetchPost
    \/ FetchPre
    \/ FetchHist30
    \/ Return
    \/ MainCheck
    \/ Enrich
    \/ WriteFile
    \/ Push
    \/ Tweet

Spec == Init /\ [][Next]_vars

(* ------------------------------- properties ---------------------------- *)
\* the exceptions that leave screen_stocks_for_opportunities
EngineErrors == {"FetchError", "IndexError"}

HasLog(what, about) ==
    \E k \in 1..Len(log) : log[k].what = what /\ log[k].about = about

\* the engine has handed a ranking back to its caller
EngineReturned ==
    \/ pc \in {"returned", "main_check"}
    \/ HasLog("no opportunities", 0)
    \/ HasLog("ranked list", 0)

\* positions of the records of candidate j in a sequence of records
RecordsOf(seq, j) == {k \in 1..Len(seq) : seq[k].earnings_date = j}

Raised(j) == HasLog("could not analyze", j)
Qualified(j) == HasLog("qualified", j)

\* C1, state part: once the benchmark is in, nothing leaves the engine as an
\* exception; when the engine has returned, the loop has gone through every
\* candidate, a candidate whose processing raised has no record in the
\* ranking, and every candidate that passed all gates has exactly one, the
\* record that was appended for it.
C1_Isolated ==
    /\ (idx > 0 => error \notin EngineErrors)
    /\ EngineReturned =>
        /\ error \notin EngineErrors
        /\ idx = Len(tickers)
        /\ \A j \in 1..Len(tickers) :
            /\ Raised(j) => RecordsOf(ranked_stocks, j) = {}
            /\ Qualified(j) =>
                /\ Cardinality(RecordsOf(ranked_stocks, j)) = 1
                /\ Cardinality(RecordsOf(screened_stocks, j)) = 1
                /\ \A a \in RecordsOf(ranked_stocks, j), b \in RecordsOf(screened_stocks, j) :
                       ranked_stocks[a] = screened_stocks[b]

\* C1, step part: no step, and so no failure of a later candidate, changes or
\* removes a record that is already in the accumulator.
C1_RecordsKept ==
    /\ Len(screened_stocks') >= Len(screened_stocks)
    /\ \A k \in 1..Len(screened_stocks) : screened_stocks'[k] = screened_stocks[k]

\* C1: fault isolation.  A candidate whose fetch or computation raises is
\* absent from the ranking, the call still returns, and every other candidate
\* that passes all gates is in the ranking with the record computed for it.
C1_FaultIsolation == [](C1_Isolated) /\ [][C1_RecordsKept]_vars

\* C1 witness: three candidates, the second raised, the first and the third
\* are in the returned ranking.
C1_Witness ==
    /\ EngineReturned
    /\ Len(tickers) = 3
    /\ Raised(2)
    /\ RecordsOf(ranked_stocks, 1) # {}
    /\ RecordsOf(ranked_stocks, 3) # {}

\* the symbol is 1 to 5 upper-case letters and nothing else
IsUpperSymbol(sym) == Len(sym) \in 1..5 /\ \A k \in 1..Len(sym) : sym[k] \in Upper

\* C2 (as claimed): every record in the accumulator belongs to a candidate
\* whose symbol is 1-5 upper-case letters and whose company name is present;
\* and at the moment a record is appended, the snapshot it was computed from
\* has market cap >= 10,000,000,000, a target price and a current price, and
\* the earnings, post-window and 30-day fetches have all been made.
C2_AcceptedPassedAllGates ==
    /\ \A k \in 1..Len(screened_stocks) :
        /\ IsUpperSymbol(screened_stocks[k].ticker)
        /\ screened_stocks[k].company_name # ""
    /\ (pc = "loop" /\ idx > 0 /\ Qualified(idx)) =>
        /\ InfoGate(info) = 0
        /\ TruthyNum(info.currentPrice)
        /\ \A c \in {"info", "earnings", "post", "hist30"} :
               \E k \in 1..Len(calls) : calls[k] = c

FGe(x, y) == ~IsNaN(x) /\ ~IsNaN(y) /\ ~FLt(x, y)
FEq(x, y) == ~IsNaN(x) /\ ~IsNaN(y) /\ x = y

\* C3 (as claimed): the returned sequence is a permutation of the accepted
\* results, its move scores are non-increasing, and of two results with equal
\* score the one whose candidate came earlier in the input is at the lower
\* index.
C3_RankedByScore ==
    EngineReturned =>
        /\ Len(ranked_stocks) = Len(screened_stocks)
        /\ \A k \in 1..Len(screened_stocks) :
               \E m \in 1..Len(ranked_stocks) : ranked_stocks[m] = screened_stocks[k]
        /\ \A a, b \in 1..Len(ranked_stocks) :
               a < b =>
                   /\ FGe(ranked_stocks[a].move_score, ranked_stocks[b].move_score)
                   /\ FEq(ranked_stocks[a].move_score, ranked_stocks[b].move_score)
                          => ranked_stocks[a].earnings_date < ranked_stocks[b].earnings_date

\* the benchmark call has not produced a usable series: it raised (spy_hist
\* is still unset after the step) or it returned no points
BenchmarkUnavailable(h) == h = <<>> \/ h = << <<>> >>

\* C4, step part: the step that asks for the benchmark either gets a series
\* with data or ends the call with an exception, before any candidate.
C4_BenchmarkStep ==
    (pc = "bench" /\ BenchmarkUnavailable(spy_hist')) =>
        /\ error' \in EngineErrors
        /\ pc' \in {"raised", "exit"}
        /\ idx' = 0
        /\ spy_runup' = <<>>

\* C4, state part: an exception has left the engine only if no candidate was
\* touched; a per-ticker failure is a logged warning and never that exception.
C4_Distinct ==
    /\ error \in EngineErrors =>
        /\ BenchmarkUnavailable(spy_hist)
        /\ idx = 0
        /\ calls = <<>>
        /\ screened_stocks = <<>>
        /\ pc \in {"raised", "exit"}
        /\ (caller = "main" => exit_code = 1)
    /\ \A j \in 1..Len(tickers) : Raised(j) => error \notin EngineErrors

\* C4: without benchmark data no ticker is screened and the failure reaches
\* the caller as an exception, which a per-ticker failure never does.
C4_BenchmarkFailureIsFatal == [](C4_Distinct) /\ [][C4_BenchmarkStep]_vars

\* C4 witness: the benchmark series came back empty for a non-empty batch.
C4_Witness ==
    /\ spy_hist = << <<>> >>
    /\ error = "IndexError"
    /\ Len(tickers) > 0
    /\ pc = "exit"

\* C5 (as claimed): when a candidate has been rejected at a quality gate, the
\* log holds an entry about it before the next candidate is taken.
C5_RejectionsLogged ==
    (pc = "loop" /\ idx > 0 /\ gate # 0) =>
        \E k \in 1..Len(log) : log[k].about = idx

NoneQualified == \A j \in 1..Len(tickers) : ~Qualified(j)

\* C6, state part: when the engine has returned and no candidate qualified
\* (all rejected, or none given), the ranking is empty, no exception left the
\* engine, nothing was written, pushed or generated, and main can only be at
\* its check or have exited with status 1.  main given an empty candidate
\* list is in the same position.
C6_Empty ==
    /\ (EngineReturned /\ NoneQualified) =>
        /\ ranked_stocks = <<>>
        /\ error = "none"
        /\ ~file_written /\ ~pushed /\ ~tweeted
        /\ pc \in {"returned", "main_check", "exit"}
        /\ (pc = "exit" => exit_code = 1)
    /\ (caller = "main" /\ tickers = <<>>) =>
        /\ ~file_written /\ ~pushed /\ ~tweeted
        /\ pc \in {"start", "exit"}
        /\ (pc = "exit" => exit_code = 1)

\* C6, step part: main's check of an empty ranking exits with status 1.
C6_MainStops ==
    (pc = "main_check" /\ ranked_stocks = <<>>) => (pc' = "exit" /\ exit_code' = 1)

C7_WrittenOnce ==
    spy_runup' # spy_runup => (pc = "bench" /\ spy_runup = <<>> /\ idx = 0)

\* C7, state part: any work on a candidate finds the benchmark run-up set.
C7_SetBeforeTickers ==
    (idx > 0 \/ calls # <<>> \/ screened_stocks # <<>>) => spy_runup # <<>>

\* C7: the benchmark run-up is computed once, before any candidate is
\* fetched or tested, and never written again during the scan.
C7_BenchmarkOnce == [](C7_SetBeforeTickers) /\ [][C7_WrittenOnce]_vars

\* C7 witness: the loop has finished three candidates, two of them accepted,
\* under one benchmark value.
C7_Witness ==
    /\ pc = "loop"
    /\ idx = 3
    /\ spy_runup # <<>>
    /\ Len(screened_stocks) >= 2

Called(c) == \E k \in 1..Len(calls) : calls[k] = c

\* C8: a candidate whose symbol fails the pattern has no fetch at all; one
\* whose snapshot fails the name, market-cap or target-price gate has the
\* snapshot fetch and nothing else; one without earnings dates has no
\* price-series fetch; and the gate that ends a candidate is the first one
\* that fails.
C8_GateOrder ==
    idx > 0 =>
        /\ ~SymbolMatches(tickers[idx].symbol) => (calls = <<>> /\ (pc = "loop" => gate = 1))
        /\ gate = 1 => ~SymbolMatches(tickers[idx].symbol)
        /\ (Called("info") /\ info # NoInfo /\ InfoGate(info) # 0) =>
               (calls = <<"info">> /\ gate = InfoGate(info) /\ pc = "loop")
        /\ gate \in {2, 3, 4} => (InfoGate(info) = gate /\ calls = <<"info">>)
        /\ gate = 5 => calls = <<"info", "earnings">>
        /\ (Called("post") \/ Called("pre") \/ Called("hist30")) =>
               (Called("earnings") /\ gate # 5 /\ InfoGate(info) = 0)
        /\ gate \in {6, 7} => (~Called("hist30") /\ Called("post"))
        /\ gate = 7 => ~TruthyNum(info.currentPrice)
        /\ Called("hist30") => TruthyNum(info.currentPrice)

\* C8 witness: the second candidate was dropped for lack of earnings dates
\* after exactly the snapshot and the earnings fetch.
C8_Witness ==
    /\ pc = "loop"
    /\ idx = 2
    /\ gate = 5
    /\ calls = <<"info", "earnings">>

\* the closes of the window on the last day before d and the first day after
DaysBefore(w) == {k \in 1..Len(w) : w[k].day < 0}
DaysAfter(w) == {k \in 1..Len(w) : w[k].day > 0}
CloseBefore(w) == w[CHOOSE k \in DaysBefore(w) : \A m \in DaysBefore(w) : m <= k].close
CloseAfter(w) == w[CHOOSE k \in DaysAfter(w) : \A m \in DaysAfter(w) : k <= m].close

\* C9 (as claimed): after the post window of a date is handled, a window of
\* at least two points with a point before and a point after d has recorded
\* the percent change between those two, and a window of fewer than two
\* points has recorded nothing.
C9_MoveAcrossEarningsDate ==
    pc = "pre" =>
        /\ (Len(hist_post) >= 2 /\ DaysBefore(hist_post) # {} /\ DaysAfter(hist_post) # {}) =>
               /\ post_moves # <<>>
               /\ Last(post_moves) = PctChange(CloseBefore(hist_post), CloseAfter(hist_post))
        /\ Len(hist_post) < 2 => Len(post_moves) < d

\* C10 (as claimed): no percent change is taken from a zero start: the
\* benchmark series and the post window start at a non-zero close when their
\* change is computed, and no recorded move, run-up or result is the inf or
\* nan that a zero start produces.
C10_NoZeroStart ==
    /\ spy_runup # <<>> => (spy_hist[1][1].close # 0 /\ IsFinite(spy_runup[1]))
    /\ (pc = "pre" /\ Len(hist_post) >= 2) => hist_post[1].close # 0
    /\ \A k \in 1..Len(post_moves) : IsFinite(post_moves[k])
    /\ \A k \in 1..Len(pre_runups) : IsFinite(pre_runups[k])
    /\ \A k \in 1..Len(screened_stocks) :
        /\ IsFinite(screened_stocks[k].stock_runup)
        /\ IsFinite(screened_stocks[k].analyst_upside)
        /\ IsFinite(screened_stocks[k].move_score)

====
